---- MODULE Spec2Model ----
(***************************************************************************)
(* A model of lib/apply-patch.ts: the pseudo-diff patch engine.  Strings   *)
(* are TLA+ strings, used as character sequences (Len, SubSeq, \o); line   *)
(* arrays are sequences of strings, indexed from 0 in the code and from 1  *)
(* here, so lines[i] of the code is lines[i + 1] of the model.             *)
(***************************************************************************)
EXTENDS Integers, Sequences, FiniteSets, TLC

VARIABLES text, orig, pc, parser, upd, commit, result, err, fc, scan,
          edit, cli

vars == <<text, orig, pc, parser, upd, commit, result, err, fc, scan,
          edit, cli>>

(***************************************************************************)
(* String primitives of the JavaScript runtime the code relies on.         *)
(***************************************************************************)
startsWith(s, prefix) ==
    /\ Len(s) >= Len(prefix)
    /\ SubSeq(s, 1, Len(prefix)) = prefix

substring(s, n) == SubSeq(s, n + 1, Len(s))

charAt(s, i) == SubSeq(s, i + 1, i + 1)

isSpace(c) == c \in {" ", "\r", "\t", "\n"}

RECURSIVE trimEnd(_)
trimEnd(s) ==
    IF Len(s) > 0 /\ isSpace(charAt(s, Len(s) - 1))
    THEN trimEnd(SubSeq(s, 1, Len(s) - 1))
    ELSE s

RECURSIVE trimStart(_)
trimStart(s) ==
    IF Len(s) > 0 /\ isSpace(charAt(s, 0))
    THEN trimStart(substring(s, 1))
    ELSE s

trim(s) == trimStart(trimEnd(s))

\* indexOf(s, "\n", from): the first newline at or after from, or -1.
indexOfNewline(s, from) ==
    LET at == {i \in from..(Len(s) - 1) : charAt(s, i) = "\n"}
    IN  IF at = {} THEN -1 ELSE CHOOSE i \in at : \A j \in at : i <= j

RECURSIVE splitFrom(_, _)
splitFrom(s, i) ==
    LET j == indexOfNewline(s, i)
    IN  IF j = -1 THEN <<substring(s, i)>>
        ELSE <<SubSeq(s, i + 1, j)>> \o splitFrom(s, j + 1)

split(s) == splitFrom(s, 0)

RECURSIVE join(_)
join(ls) ==
    IF Len(ls) = 0 THEN ""
    ELSE IF Len(ls) = 1 THEN ls[1]
    ELSE ls[1] \o "\n" \o join(Tail(ls))

slice(ls, from, to) == SubSeq(ls, from + 1, to)

includes(ls, s) == \E i \in 1..Len(ls) : ls[i] = s

trimAll(ls) == [i \in 1..Len(ls) |-> trim(ls[i])]

EmptyMap == [p \in {} |-> ""]

put(m, k, v) == [p \in (DOMAIN m) \cup {k} |-> IF p = k THEN v ELSE m[p]]

(***************************************************************************)
(* Parser._norm                                                            *)
(***************************************************************************)
\* A normalisation that keeps the carriage return.
normKeepCR(line) == line

norm(line) ==
    IF Len(line) > 0 /\ charAt(line, Len(line) - 1) = "\r"
    THEN SubSeq(line, 1, Len(line) - 1)
    ELSE line

(***************************************************************************)
(* Locator: findContextCore, arraysEqual, findContext.  A result is the    *)
(* pair <<newIndex, fuzz>>, newIndex = -1 when nothing matches.            *)
(***************************************************************************)
FuzzTrailing == 1

FuzzTrim == 100

FuzzEof == 10000

arraysEqual(a, b) ==
    /\ Len(a) = Len(b)
    /\ \A i \in 1..Len(a) : a[i] = b[i]

tierMap(tier, s) ==
    IF tier = 0 THEN s
    ELSE IF tier = FuzzTrailing THEN trimEnd(s)
    ELSE trim(s)

tierEqual(lines, context, i, tier) ==
    arraysEqual([k \in 1..Len(context) |-> tierMap(tier, lines[i + k])],
                [k \in 1..Len(context) |-> tierMap(tier, context[k])])

RECURSIVE scanTier(_, _, _, _)
scanTier(lines, context, i, tier) ==
    IF i > Len(lines) - Len(context) THEN -1
    ELSE IF tierEqual(lines, context, i, tier) THEN i
    ELSE scanTier(lines, context, i + 1, tier)

\* A search that ignores the start and scans the file from its first line.
findContextCoreFromTop(lines, context, start) ==
    IF Len(context) = 0 THEN <<start, 0>>
    ELSE LET t0 == scanTier(lines, context, 0, 0)
             t1 == scanTier(lines, context, 0, FuzzTrailing)
             t2 == scanTier(lines, context, 0, FuzzTrim)
         IN  IF t0 # -1 THEN <<t0, 0>>
             ELSE IF t1 # -1 THEN <<t1, FuzzTrailing>>
             ELSE IF t2 # -1 THEN <<t2, FuzzTrim>>
             ELSE <<-1, 0>>

\* A single pass that returns the earliest position matching under any
\* tier, with that position's strongest tier.
findContextCoreEarliest(lines, context, start) ==
    IF Len(context) = 0 THEN <<start, 0>>
    ELSE LET p == scanTier(lines, context, start, FuzzTrim)
         IN  IF p = -1 THEN <<-1, 0>>
             ELSE IF tierEqual(lines, context, p, 0) THEN <<p, 0>>
             ELSE IF tierEqual(lines, context, p, FuzzTrailing)
             THEN <<p, FuzzTrailing>>
             ELSE <<p, FuzzTrim>>

\* A search that tries the trailing-whitespace tier before the exact one.
findContextCoreTrailingFirst(lines, context, start) ==
    IF Len(context) = 0 THEN <<start, 0>>
    ELSE LET t0 == scanTier(lines, context, start, 0)
             t1 == scanTier(lines, context, start, FuzzTrailing)
             t2 == scanTier(lines, context, start, FuzzTrim)
         IN  IF t1 # -1 THEN <<t1, FuzzTrailing>>
             ELSE IF t0 # -1 THEN <<t0, 0>>
             ELSE IF t2 # -1 THEN <<t2, FuzzTrim>>
             ELSE <<-1, 0>>

findContextCore(lines, context, start) ==
    IF Len(context) = 0 THEN <<start, 0>>
    ELSE LET t0 == scanTier(lines, context, start, 0)
             t1 == scanTier(lines, context, start, FuzzTrailing)
             t2 == scanTier(lines, context, start, FuzzTrim)
         IN  IF t0 # -1 THEN <<t0, 0>>
             ELSE IF t1 # -1 THEN <<t1, FuzzTrailing>>
             ELSE IF t2 # -1 THEN <<t2, FuzzTrim>>
             ELSE <<-1, 0>>

max(a, b) == IF a >= b THEN a ELSE b

\* The end-of-file attempt made from the cursor instead of from the end.
findContextFromCursor(lines, context, start, eof) ==
    IF eof
    THEN LET r == findContextCore(lines, context, start)
         IN  IF r[1] # -1 /\ r[1] + Len(context) = Len(lines) THEN r
             ELSE <<r[1], r[2] + FuzzEof>>
    ELSE findContextCore(lines, context, start)

findContext(lines, context, start, eof) ==
    IF eof
    THEN LET r == findContextCore(lines, context,
                                  max(0, Len(lines) - Len(context)))
             r2 == findContextCore(lines, context, start)
         IN  IF r[1] # -1 THEN r ELSE <<r2[1], r2[2] + FuzzEof>>
    ELSE findContextCore(lines, context, start)

(***************************************************************************)
(* peekNextSection: reads one hunk body from the patch lines.  The loop    *)
(* state is the record of the function's locals; err is "" unless the      *)
(* function throws.                                                        *)
(***************************************************************************)
isSectionEnd(s) ==
    \/ startsWith(s, "@@")
    \/ startsWith(s, "*** End Patch")
    \/ startsWith(s, "*** Update File:")
    \/ startsWith(s, "*** Delete File:")
    \/ startsWith(s, "*** Add File:")
    \/ startsWith(s, "*** End of File")

lineMode(line) ==
    IF charAt(line, 0) = "+" THEN "add"
    ELSE IF charAt(line, 0) = "-" THEN "delete"
    ELSE IF charAt(line, 0) = " " THEN "keep"
    ELSE "invalid"

pushChunk(st) ==
    IF Len(st.insLines) > 0 \/ Len(st.delLines) > 0
    THEN Append(st.chunks, [origIndex |-> Len(st.old) - Len(st.delLines),
                            delLines |-> st.delLines,
                            insLines |-> st.insLines])
    ELSE st.chunks

RECURSIVE peekLoop(_, _)
peekLoop(lines, st) ==
    IF st.index >= Len(lines) THEN st
    ELSE LET s == lines[st.index + 1] IN
         IF s = "" THEN peekLoop(lines, [st EXCEPT !.index = @ + 1])
         ELSE IF isSectionEnd(s) THEN st
         ELSE IF s = "***" THEN st
         ELSE IF startsWith(s, "***") THEN [st EXCEPT !.err = "Invalid Line"]
         ELSE LET line0 == IF s = "" THEN " " ELSE s
                  mode == lineMode(line0)
                  line == substring(line0, 1)
                  flush == mode = "keep" /\ st.mode # mode
                  st1 == IF flush
                         THEN [st EXCEPT !.chunks = pushChunk(st),
                                         !.delLines = <<>>,
                                         !.insLines = <<>>]
                         ELSE st
              IN  IF mode = "invalid"
                  THEN [st EXCEPT !.index = @ + 1, !.err = "Invalid Line"]
                  ELSE peekLoop(lines,
                         [st1 EXCEPT
                            !.index = @ + 1,
                            !.mode = mode,
                            !.old = IF mode \in {"delete", "keep"}
                                    THEN Append(@, line) ELSE @,
                            !.delLines = IF mode = "delete"
                                         THEN Append(@, line) ELSE @,
                            !.insLines = IF mode = "add"
                                         THEN Append(@, line) ELSE @])

peekNextSection(lines, index) ==
    LET st == peekLoop(lines, [index |-> index, old |-> <<>>,
                               delLines |-> <<>>, insLines |-> <<>>,
                               chunks |-> <<>>, mode |-> "keep", err |-> ""])
        chunks == pushChunk(st)
    IN  IF st.err # ""
        THEN [old |-> <<>>, chunks |-> <<>>, endIdx |-> st.index,
              eof |-> FALSE, err |-> st.err]
        ELSE IF st.index < Len(lines) /\ lines[st.index + 1] = "*** End of File"
        THEN [old |-> st.old, chunks |-> chunks, endIdx |-> st.index + 1,
              eof |-> TRUE, err |-> ""]
        ELSE IF st.index = index
        THEN [old |-> <<>>, chunks |-> <<>>, endIdx |-> st.index,
              eof |-> FALSE, err |-> "Nothing in this section"]
        ELSE [old |-> st.old, chunks |-> chunks, endIdx |-> st.index,
              eof |-> FALSE, err |-> ""]

(***************************************************************************)
(* Parser: the scanning helpers.  A parser value is the record of the      *)
(* Parser object's fields lines, index, patch and fuzz; patch.actions, an  *)
(* insertion-ordered map, is the sequence of its entries, each entry the   *)
(* action's fields with the key in path.  An absent movePath is "".        *)
(***************************************************************************)
atEnd(p) == p.index >= Len(p.lines)

curLine(p) == p.lines[p.index + 1]

isDone(p, prefixes) ==
    \/ atEnd(p)
    \/ \E prefix \in prefixes : startsWith(norm(curLine(p)), prefix)

\* readStr: the text after the prefix and the index after the call.  The
\* caller checks atEnd first where _curLine would throw.
readStr(p, prefix) ==
    IF startsWith(norm(curLine(p)), prefix)
    THEN [text |-> substring(curLine(p), Len(prefix)), index |-> p.index + 1]
    ELSE [text |-> "", index |-> p.index]

\* A duplicate test that looks at the most recent action only.
hasActionLast(p, path) ==
    Len(p.patch) > 0 /\ p.patch[Len(p.patch)].path = path

\* path in this.patch.actions
hasAction(p, path) == \E i \in 1..Len(p.patch) : p.patch[i].path = path

\* An existence test that never finds the path.
inFilesNever(files, path) == FALSE

\* path in this.currentFiles
inFiles(files, path) == path \in DOMAIN files

UpdateEnd == {"*** End Patch", "*** Update File:", "*** Delete File:",
              "*** Add File:", "*** End of File"}

AddEnd == {"*** End Patch", "*** Update File:", "*** Delete File:",
           "*** Add File:"}

NoUpd == [path |-> "", movePath |-> "", lines |-> <<>>, index |-> 0,
          chunks |-> <<>>]

(***************************************************************************)
(* Parser._parseAddFile: reads the body lines up to the next header.       *)
(***************************************************************************)
RECURSIVE parseAddLoop(_, _)
parseAddLoop(p, acc) ==
    IF isDone(p, AddEnd) THEN [index |-> p.index, lines |-> acc, err |-> ""]
    ELSE LET s == curLine(p) IN
         IF ~startsWith(s, "+")
         THEN [index |-> p.index + 1, lines |-> acc,
               err |-> "Invalid Add File line"]
         ELSE parseAddLoop([p EXCEPT !.index = @ + 1],
                           Append(acc, substring(s, 1)))

\* An Add that ends the new file with a newline.
parseAddFileWithNewline(p) ==
    LET r == parseAddLoop(p, <<>>)
    IN  [index |-> r.index, err |-> r.err,
         action |-> [type |-> "add", newFile |-> join(r.lines) \o "\n",
                     chunks |-> <<>>]]

parseAddFile(p) ==
    LET r == parseAddLoop(p, <<>>)
    IN  [index |-> r.index, err |-> r.err,
         action |-> [type |-> "add", newFile |-> join(r.lines),
                     chunks |-> <<>>]]

(***************************************************************************)
(* Parser._parseUpdateFile, one iteration of its loop (or its return when  *)
(* the loop ends).  upd holds the locals of the call: the target file's    *)
(* lines, the per-file cursor index, the chunks collected so far, and the  *)
(* path and moveTo that parse() attaches to the returned action.           *)
(***************************************************************************)
RECURSIVE firstExact(_, _, _)
firstExact(lines, i, s) ==
    IF i >= Len(lines) THEN -1
    ELSE IF lines[i + 1] = s THEN i
    ELSE firstExact(lines, i + 1, s)

RECURSIVE firstTrimmed(_, _, _)
firstTrimmed(lines, i, s) ==
    IF i >= Len(lines) THEN -1
    ELSE IF trim(lines[i + 1]) = trim(s) THEN i
    ELSE firstTrimmed(lines, i + 1, s)

\* Lines 217-238: the anchor search.  found is computed and never read.
\* An anchor search that counts fuzz for an anchor it did not find.
anchorSearchCountingMisses(lines, index, defStr) ==
    LET e == firstExact(lines, index, defStr)
        t == firstTrimmed(lines, index, defStr)
    IN  IF e # -1 THEN [index |-> e + 1, fuzz |-> 0, found |-> TRUE]
        ELSE IF t # -1 THEN [index |-> t + 1, fuzz |-> 1, found |-> TRUE]
        ELSE [index |-> index, fuzz |-> 1, found |-> FALSE]

anchorSearch(lines, index, defStr) ==
    LET e == IF ~includes(slice(lines, 0, index), defStr)
             THEN firstExact(lines, index, defStr) ELSE -1
        index1 == IF e # -1 THEN e + 1 ELSE index
        t == IF e = -1 /\ ~includes(trimAll(slice(lines, 0, index1)),
                                    trim(defStr))
             THEN firstTrimmed(lines, index1, defStr) ELSE -1
    IN  IF t # -1 THEN [index |-> t + 1, fuzz |-> 1, found |-> TRUE]
        ELSE [index |-> index1, fuzz |-> 0, found |-> e # -1]

\* Chunks left with the indexes they have within their section.
rebaseUnshifted(chunks, newIndex) == chunks

rebase(chunks, newIndex) ==
    [k \in 1..Len(chunks) |->
        [chunks[k] EXCEPT !.origIndex = @ + newIndex]]

failed(p, u, msg) == [pc |-> "error", parser |-> p, upd |-> u, err |-> msg]

parseUpdateFileStep(p, u) ==
    IF isDone(p, UpdateEnd)
    THEN [pc |-> "parse",
          parser |-> [p EXCEPT !.patch =
                        Append(@, [path |-> u.path, type |-> "update",
                                   chunks |-> u.chunks,
                                   movePath |-> u.movePath])],
          upd |-> NoUpd, err |-> ""]
    ELSE LET r1 == readStr(p, "@@ ")
             defStr == r1.text
             p1 == [p EXCEPT !.index = r1.index]
         IN  IF defStr = "" /\ atEnd(p1)
             THEN failed(p, u, "Unexpected end of input")
             ELSE
         LET bare == defStr = "" /\ norm(curLine(p1)) = "@@"
             sectionStr == IF bare THEN curLine(p1) ELSE ""
             p2 == IF bare THEN [p1 EXCEPT !.index = @ + 1] ELSE p1
         IN  IF ~(defStr # "" \/ sectionStr # "" \/ u.index = 0)
             THEN failed(p, u, "Invalid line in update section")
             ELSE
         LET a == IF trim(defStr) # ""
                  THEN anchorSearch(u.lines, u.index, defStr)
                  ELSE [index |-> u.index, fuzz |-> 0, found |-> FALSE]
             sec == peekNextSection(p2.lines, p2.index)
         IN  IF sec.err # "" THEN failed(p, u, sec.err)
             ELSE
         LET r == findContext(u.lines, sec.old, a.index, sec.eof)
         IN  IF r[1] = -1
             THEN failed(p, u, IF sec.eof THEN "Invalid EOF context"
                                          ELSE "Invalid context")
             ELSE [pc |-> "parseUpdateFile",
                   parser |-> [p2 EXCEPT !.index = sec.endIdx,
                                         !.fuzz = @ + a.fuzz + r[2]],
                   upd |-> [u EXCEPT !.index = r[1] + Len(sec.old),
                                     !.chunks = @ \o rebase(sec.chunks, r[1])],
                   err |-> ""]

(***************************************************************************)
(* Parser.parse, one iteration of its loop (or the code after the loop).   *)
(***************************************************************************)
parseStep(p, files) ==
    IF isDone(p, {"*** End Patch"})
    THEN IF atEnd(p) THEN failed(p, NoUpd, "Unexpected end of input")
         ELSE IF ~startsWith(norm(curLine(p)), "*** End Patch")
         THEN failed(p, NoUpd, "Missing *** End Patch sentinel")
         ELSE [pc |-> "patchToCommit", parser |-> [p EXCEPT !.index = @ + 1],
               upd |-> NoUpd, err |-> ""]
    ELSE
    LET r1 == readStr(p, "*** Update File: ")
        path == r1.text
        p1 == [p EXCEPT !.index = r1.index]
    IN  IF path # ""
        THEN IF hasAction(p, path) THEN failed(p, NoUpd, "Duplicate update")
             ELSE IF atEnd(p1) THEN failed(p, NoUpd, "Unexpected end of input")
             ELSE LET r2 == readStr(p1, "*** Move to: ") IN
                  IF ~inFiles(files, path)
                  THEN failed(p, NoUpd, "Update File Error - missing file")
                  ELSE [pc |-> "parseUpdateFile",
                        parser |-> [p1 EXCEPT !.index = r2.index],
                        upd |-> [path |-> path, movePath |-> r2.text,
                                 lines |-> split(files[path]), index |-> 0,
                                 chunks |-> <<>>],
                        err |-> ""]
        ELSE IF atEnd(p1) THEN failed(p, NoUpd, "Unexpected end of input")
        ELSE
    LET r3 == readStr(p1, "*** Delete File: ")
        deletePath == r3.text
        p3 == [p1 EXCEPT !.index = r3.index]
    IN  IF deletePath # ""
        THEN IF hasAction(p, deletePath)
             THEN failed(p, NoUpd, "Duplicate delete")
             ELSE IF ~inFiles(files, deletePath)
             THEN failed(p, NoUpd, "Delete File Error - missing file")
             ELSE [pc |-> "parse",
                   parser |-> [p3 EXCEPT !.patch =
                                 Append(@, [path |-> deletePath,
                                            type |-> "delete",
                                            chunks |-> <<>>])],
                   upd |-> NoUpd, err |-> ""]
        ELSE IF atEnd(p3) THEN failed(p, NoUpd, "Unexpected end of input")
        ELSE
    LET r4 == readStr(p3, "*** Add File: ")
        addPath == r4.text
        p4 == [p3 EXCEPT !.index = r4.index]
    IN  IF addPath # ""
        THEN IF hasAction(p, addPath) THEN failed(p, NoUpd, "Duplicate add")
             ELSE IF inFiles(files, addPath)
             THEN failed(p, NoUpd, "Add File Error - file already exists")
             ELSE LET r5 == parseAddFile(p4) IN
                  IF r5.err # "" THEN failed(p, NoUpd, r5.err)
                  ELSE [pc |-> "parse",
                        parser |-> [p4 EXCEPT
                                      !.index = r5.index,
                                      !.patch = Append(@,
                                         [path |-> addPath] @@ r5.action)],
                        upd |-> NoUpd, err |-> ""]
        ELSE failed(p, NoUpd, IF atEnd(p4) THEN "Unexpected end of input"
                                          ELSE "Unknown line while parsing")

(***************************************************************************)
(* textToPatch: the framing check and the construction of the parser.      *)
(***************************************************************************)
\* A framing check that forgets the closing sentinel.
framingOkOpeningOnly(lines) ==
    /\ Len(lines) >= 2
    /\ startsWith(norm(lines[1]), "*** Begin Patch")

framingOk(lines) ==
    /\ Len(lines) >= 2
    /\ startsWith(norm(lines[1]), "*** Begin Patch")
    /\ norm(lines[Len(lines)]) = "*** End Patch"

newParser(lines, index) ==
    [lines |-> lines, index |-> index, patch |-> <<>>, fuzz |-> 0]

NoParser == newParser(<<>>, 0)

textToPatchStep(t) ==
    LET lines == split(t) IN
    IF ~framingOk(lines)
    THEN failed(NoParser, NoUpd, "Invalid patch text - missing sentinels")
    ELSE [pc |-> "parse", parser |-> newParser(lines, 1), upd |-> NoUpd,
          err |-> ""]

(***************************************************************************)
(* getUpdatedFile, patchToCommit, applyCommit.                             *)
(***************************************************************************)
RECURSIVE applyChunks(_, _, _, _)
applyChunks(origLines, chunks, origIndex, destLines) ==
    IF Len(chunks) = 0
    THEN [lines |-> destLines \o slice(origLines, origIndex, Len(origLines)),
          err |-> ""]
    ELSE LET chunk == Head(chunks) IN
         IF chunk.origIndex > Len(origLines)
         THEN [lines |-> <<>>, err |-> "exceeds file length"]
         ELSE IF origIndex > chunk.origIndex
         THEN [lines |-> <<>>, err |-> "overlapping chunks"]
         ELSE applyChunks(origLines, Tail(chunks),
                          chunk.origIndex + Len(chunk.delLines),
                          destLines
                            \o slice(origLines, origIndex, chunk.origIndex)
                            \o chunk.insLines)

\* getUpdatedFile without the check of the cursor against the chunk.
RECURSIVE applyChunksUnchecked(_, _, _, _)
applyChunksUnchecked(origLines, chunks, origIndex, destLines) ==
    IF Len(chunks) = 0
    THEN [lines |-> destLines \o slice(origLines, origIndex, Len(origLines)),
          err |-> ""]
    ELSE LET chunk == Head(chunks) IN
         IF chunk.origIndex > Len(origLines)
         THEN [lines |-> <<>>, err |-> "exceeds file length"]
         ELSE applyChunksUnchecked(origLines, Tail(chunks),
                          chunk.origIndex + Len(chunk.delLines),
                          destLines
                            \o slice(origLines, origIndex, chunk.origIndex)
                            \o chunk.insLines)

getUpdatedFileUnchecked(t, action) ==
    LET r == applyChunksUnchecked(split(t), action.chunks, 0, <<>>)
    IN  [content |-> join(r.lines), err |-> r.err]

\* getUpdatedFile losing the empty last line, the file's final newline.
getUpdatedFileDroppingNewline(t, action) ==
    IF action.type # "update"
    THEN [content |-> "", err |-> "getUpdatedFile called with non-update action"]
    ELSE LET r == applyChunks(split(t), action.chunks, 0, <<>>)
             n == Len(r.lines)
         IN  [content |-> join(IF n > 1 /\ r.lines[n] = ""
                               THEN SubSeq(r.lines, 1, n - 1) ELSE r.lines),
              err |-> r.err]

\* getUpdatedFile writing every line without its surrounding whitespace.
getUpdatedFileTrimmed(t, action) ==
    IF action.type # "update"
    THEN [content |-> "", err |-> "getUpdatedFile called with non-update action"]
    ELSE LET r == applyChunks(split(t), action.chunks, 0, <<>>)
         IN  [content |-> join(trimAll(r.lines)), err |-> r.err]

getUpdatedFile(t, action) ==
    IF action.type # "update"
    THEN [content |-> "", err |-> "getUpdatedFile called with non-update action"]
    ELSE LET r == applyChunks(split(t), action.chunks, 0, <<>>)
         IN  [content |-> join(r.lines), err |-> r.err]

RECURSIVE commitLoop(_, _, _)
commitLoop(actions, files, changes) ==
    IF Len(actions) = 0 THEN [changes |-> changes, err |-> ""]
    ELSE LET action == Head(actions)
             path == action.path
         IN  IF action.type = "delete"
             THEN commitLoop(Tail(actions), files,
                    Append(changes, [path |-> path, type |-> "delete",
                                     oldContent |-> files[path]]))
             ELSE IF action.type = "add"
             THEN IF "newFile" \notin DOMAIN action
                  THEN [changes |-> <<>>,
                        err |-> "ADD action without file content"]
                  ELSE commitLoop(Tail(actions), files,
                         Append(changes, [path |-> path, type |-> "add",
                                          newContent |-> action.newFile]))
             ELSE LET u == getUpdatedFile(files[path], action) IN
                  IF u.err # "" THEN [changes |-> <<>>, err |-> u.err]
                  ELSE commitLoop(Tail(actions), files,
                         Append(changes, [path |-> path, type |-> "update",
                                          oldContent |-> files[path],
                                          newContent |-> u.content,
                                          movePath |-> action.movePath]))

patchToCommit(patch, files) == commitLoop(patch, files, <<>>)

RECURSIVE applyLoop(_, _)
applyLoop(changes, res) ==
    IF Len(changes) = 0 THEN [result |-> res, err |-> ""]
    ELSE LET change == Head(changes) IN
         IF change.type = "delete" THEN applyLoop(Tail(changes), res)
         ELSE IF "newContent" \notin DOMAIN change
         THEN [result |-> EmptyMap, err |-> "change has no content"]
         ELSE IF change.type = "add"
         THEN applyLoop(Tail(changes), put(res, change.path, change.newContent))
         ELSE LET target == IF change.movePath # "" THEN change.movePath
                            ELSE change.path
              IN  applyLoop(Tail(changes), put(res, target, change.newContent))

\* An applier that writes a moved update under its source path.
applyCommitIgnoringMove(changes) ==
    applyLoop([i \in 1..Len(changes) |->
                 IF "movePath" \in DOMAIN changes[i]
                 THEN [changes[i] EXCEPT !.movePath = ""]
                 ELSE changes[i]],
              EmptyMap)

\* An applier that keeps a deleted file, with its old content.
applyCommitKeepingDeleted(changes) ==
    applyLoop([i \in 1..Len(changes) |->
                 IF changes[i].type = "delete"
                 THEN [path |-> changes[i].path, type |-> "add",
                       newContent |-> changes[i].oldContent]
                 ELSE changes[i]],
              EmptyMap)

applyCommit(changes) == applyLoop(changes, EmptyMap)

(***************************************************************************)
(* The whole pipeline as functions of the input, composed of the steps     *)
(* above: textToPatch runs the parser to its end, processPatch adds the    *)
(* commit and its application.                                             *)
(***************************************************************************)
RECURSIVE parseRun(_, _)
parseRun(st, files) ==
    IF st.pc = "parse" THEN parseRun(parseStep(st.parser, files), files)
    ELSE IF st.pc = "parseUpdateFile"
    THEN parseRun(parseUpdateFileStep(st.parser, st.upd), files)
    ELSE st

textToPatch(t, files) == parseRun(textToPatchStep(t), files)

processPatch(t, files) ==
    IF ~startsWith(t, "*** Begin Patch")
    THEN [result |-> EmptyMap,
          err |-> "Patch text must start with *** Begin Patch"]
    ELSE LET st == textToPatch(t, files) IN
         IF st.err # "" THEN [result |-> EmptyMap, err |-> st.err]
         ELSE LET c == patchToCommit(st.parser.patch, files) IN
              IF c.err # "" THEN [result |-> EmptyMap, err |-> c.err]
              ELSE applyCommit(c.changes)

(***************************************************************************)
(* The pre-parse scans: the paths after the header prefixes, read off the  *)
(* raw lines of the text.                                                  *)
(***************************************************************************)
RECURSIVE pathsAfter(_, _)
pathsAfter(lines, prefix) ==
    IF lines = <<>> THEN <<>>
    ELSE (IF startsWith(Head(lines), prefix)
          THEN <<substring(Head(lines), Len(prefix))>> ELSE <<>>)
         \o pathsAfter(Tail(lines), prefix)

\* A scan that lists update and delete paths in the order of their lines.
RECURSIVE pathsAfterEither(_, _, _)
pathsAfterEither(lines, prefix1, prefix2) ==
    IF lines = <<>> THEN <<>>
    ELSE (IF startsWith(Head(lines), prefix1)
          THEN <<substring(Head(lines), Len(prefix1))>>
          ELSE IF startsWith(Head(lines), prefix2)
          THEN <<substring(Head(lines), Len(prefix2))>> ELSE <<>>)
         \o pathsAfterEither(Tail(lines), prefix1, prefix2)

identifyFilesNeededInOrder(t) ==
    pathsAfterEither(split(t), "*** Update File: ", "*** Delete File: ")

identifyFilesNeeded(t) ==
    LET lines == split(t)
        updateFiles == pathsAfter(lines, "*** Update File: ")
        deleteFiles == pathsAfter(lines, "*** Delete File: ")
    IN  updateFiles \o deleteFiles

identifyFilesAdded(t) == pathsAfter(split(t), "*** Add File: ")

(***************************************************************************)
(* The state machine: one run of processPatch(text, orig), a step per      *)
(* call or loop iteration.                                                 *)
(***************************************************************************)
\* The locals of generatePatchAndApply and what partialEdit returned, and
\* the command line, the disk and the exit code of the CLI's process; both
\* idle in a run that calls the patch engine directly.
NoEdit == [originalContent |-> "", response |-> "", patch |-> "",
           finalContent |-> "", json |-> "", returned |-> FALSE]

NoCli == [argv |-> <<>>, disk |-> EmptyMap, ops |-> <<>>, exit |-> -1,
          stderr |-> ""]

\* The results of the two pre-parse scans, empty until they are called.
NoScan == [needed |-> <<>>, added |-> <<>>]

NoFc == [lines |-> <<>>, context |-> <<>>, start |-> 0, eof |-> FALSE,
         called |-> FALSE, res |-> <<0, 0>>]

Start(texts, fileSets) ==
    /\ text \in texts
    /\ orig \in fileSets
    /\ pc = "processPatch"
    /\ parser = NoParser
    /\ upd = NoUpd
    /\ commit = <<>>
    /\ result = EmptyMap
    /\ err = ""
    /\ fc = NoFc
    /\ scan = NoScan
    /\ edit = NoEdit
    /\ cli = NoCli

CallProcessPatch ==
    /\ pc = "processPatch"
    /\ IF ~startsWith(text, "*** Begin Patch")
       THEN pc' = "error" /\ err' = "Patch text must start with *** Begin Patch"
       ELSE pc' = "textToPatch" /\ err' = err
    /\ UNCHANGED <<text, orig, parser, upd, commit, result, fc, scan,
                   edit, cli>>

CallTextToPatch ==
    /\ pc = "textToPatch"
    /\ LET st == textToPatchStep(text) IN
         /\ pc' = st.pc
         /\ parser' = st.parser
         /\ upd' = st.upd
         /\ err' = st.err
    /\ UNCHANGED <<text, orig, commit, result, fc, scan,
                   edit, cli>>

ParseLoop ==
    /\ pc = "parse"
    /\ LET st == parseStep(parser, orig) IN
         /\ pc' = st.pc
         /\ parser' = st.parser
         /\ upd' = st.upd
         /\ err' = st.err
    /\ UNCHANGED <<text, orig, commit, result, fc, scan,
                   edit, cli>>

ParseUpdateFileLoop ==
    /\ pc = "parseUpdateFile"
    /\ LET st == parseUpdateFileStep(parser, upd) IN
         /\ pc' = st.pc
         /\ parser' = st.parser
         /\ upd' = st.upd
         /\ err' = st.err
    /\ UNCHANGED <<text, orig, commit, result, fc, scan,
                   edit, cli>>

CallPatchToCommit ==
    /\ pc = "patchToCommit"
    /\ LET c == patchToCommit(parser.patch, orig) IN
         /\ pc' = IF c.err # "" THEN "error" ELSE "applyCommit"
         /\ commit' = c.changes
         /\ err' = c.err
    /\ UNCHANGED <<text, orig, parser, upd, result, fc, scan,
                   edit, cli>>

CallApplyCommit ==
    /\ pc = "applyCommit"
    /\ LET r == applyCommit(commit) IN
         /\ pc' = IF r.err # "" THEN "error" ELSE "done"
         /\ result' = r.result
         /\ err' = r.err
    /\ UNCHANGED <<text, orig, parser, upd, commit, fc, scan,
                   edit, cli>>

\* The scans are called on the text before it is processed.
CallIdentifyFilesNeeded ==
    /\ pc = "identifyFilesNeeded"
    /\ scan' = [scan EXCEPT !.needed = identifyFilesNeeded(text)]
    /\ pc' = "identifyFilesAdded"
    /\ UNCHANGED <<text, orig, parser, upd, commit, result, err, fc,
                   edit, cli>>

CallIdentifyFilesAdded ==
    /\ pc = "identifyFilesAdded"
    /\ scan' = [scan EXCEPT !.added = identifyFilesAdded(text)]
    /\ pc' = "processPatch"
    /\ UNCHANGED <<text, orig, parser, upd, commit, result, err, fc,
                   edit, cli>>

Next ==
    \/ CallProcessPatch
    \/ CallTextToPatch
    \/ ParseLoop
    \/ ParseUpdateFileLoop
    \/ CallPatchToCommit
    \/ CallApplyCommit

(***************************************************************************)
(* Inputs.  A patch text is the two sentinels around a body of lines drawn *)
(* from a small set; a file collection maps paths to contents.             *)
(***************************************************************************)
SeqsUpTo(S, n) == UNION {[1..k -> S] : k \in 0..n}

framed(body) == join(<<"*** Begin Patch">> \o body \o <<"*** End Patch">>)

\* Whole patches: headers of the three kinds, a move, and short bodies.
MaxBody == 4

BodyLines == {"*** Update File: f", "*** Move to: g", "*** Delete File: g",
              "*** Add File: g", " a", "+x"}

PatchTexts == {framed(b) : b \in SeqsUpTo(BodyLines, MaxBody)}

PatchFiles == {("f" :> "a") @@ ("g" :> "b"), ("f" :> "a\nb")}

Init == Start(PatchTexts, PatchFiles)

Spec == Init /\ [][Next]_vars

\* Patches in which the closing sentinel may also occur inside the body.
SentinelLines == {"*** Update File: f", "*** Delete File: g",
                  "*** Add File: n", " a", "+x", "*** End Patch"}

SentinelTexts == {framed(b) : b \in SeqsUpTo(SentinelLines, MaxBody)}

InitSentinel == Start(SentinelTexts, PatchFiles)

SpecSentinel == InitSentinel /\ [][Next]_vars

\* One Update of file f: hunks of keep, delete, add and blank lines, hunk
\* headers with and without an anchor, and the end-of-file marker.
MaxHunkLines == 3

HunkLines == {" a", " b", "-b", "+c", "", "@@", "@@ a", "*** End of File"}

HunkTexts == {framed(<<"*** Update File: f">> \o b) :
                b \in SeqsUpTo(HunkLines, MaxHunkLines)}

HunkFiles == {("f" :> "a\nb"), ("f" :> "a\n\nb"), ("f" :> "b\nb\n")}

InitHunks == Start(HunkTexts, HunkFiles)

SpecHunks == InitHunks /\ [][Next]_vars

(***************************************************************************)
(* The locator alone: findContext applied to every file, context, start    *)
(* and eof flag within the bounds.                                         *)
(***************************************************************************)
MaxFileLen == 3

MaxCtxLen == 2

LocLines == {"a", "a ", " a", "b"}

InitLocator ==
    /\ \E ls \in SeqsUpTo(LocLines, MaxFileLen),
          cx \in SeqsUpTo(LocLines, MaxCtxLen),
          e \in BOOLEAN :
         \E st \in 0..Len(ls) :
            fc = [lines |-> ls, context |-> cx, start |-> st, eof |-> e,
                  called |-> FALSE, res |-> <<0, 0>>]
    /\ text = ""
    /\ orig = EmptyMap
    /\ pc = "findContext"
    /\ parser = NoParser
    /\ upd = NoUpd
    /\ commit = <<>>
    /\ result = EmptyMap
    /\ err = ""
    /\ scan = NoScan
    /\ edit = NoEdit
    /\ cli = NoCli

CallFindContext ==
    /\ pc = "findContext"
    /\ ~fc.called
    /\ fc' = [fc EXCEPT !.called = TRUE,
                        !.res = findContext(fc.lines, fc.context, fc.start,
                                            fc.eof)]
    /\ UNCHANGED <<text, orig, pc, parser, upd, commit, result, err, scan,
                   edit, cli>>

NextLocator == CallFindContext

SpecLocator == InitLocator /\ [][NextLocator]_vars

(***************************************************************************)
(* Claims about the locator.                                               *)
(***************************************************************************)
\* The three equality relations: 0 exact, 1 up to trailing whitespace,
\* 2 up to leading and trailing whitespace.
Related(rel, s, t) ==
    IF rel = 0 THEN s = t
    ELSE IF rel = 1 THEN trimEnd(s) = trimEnd(t)
    ELSE trim(s) = trim(t)

\* context equals lines[p .. p + Len(context)) line for line under rel.
MatchesAt(lines, context, p, rel) ==
    /\ p + Len(context) <= Len(lines)
    /\ \A k \in 1..Len(context) : Related(rel, lines[p + k], context[k])

Positions(lines, context, from, rel) ==
    {p \in from..Len(lines) : MatchesAt(lines, context, p, rel)}

Least(S) == CHOOSE p \in S : \A q \in S : p <= q

\* The result the tier ladder prescribes for a forward search; <<-1, 0>>
\* stands for "not found".
Ladder(lines, context, from) ==
    LET exact == Positions(lines, context, from, 0)
        trailing == Positions(lines, context, from, 1)
        trimmed == Positions(lines, context, from, 2)
    IN  IF context = <<>> THEN <<from, 0>>
        ELSE IF exact # {} THEN <<Least(exact), 0>>
        ELSE IF trailing # {} THEN <<Least(trailing), 1>>
        ELSE IF trimmed # {} THEN <<Least(trimmed), 100>>
        ELSE <<-1, 0>>

\* C4: without the eof flag findContext returns the earliest exact match at
\* or after the start with fuzz 0, else the earliest match up to trailing
\* whitespace with fuzz 1, else the earliest match up to a full trim with
\* fuzz 100, else not found; an empty context matches at the start.
C4_TierLadder ==
    (fc.called /\ ~fc.eof) =>
        fc.res = Ladder(fc.lines, fc.context, fc.start)

\* An exact match at a later position was preferred to a weaker match at
\* an earlier one.
C4_Witness ==
    /\ fc.called /\ ~fc.eof /\ fc.res[2] = 0 /\ fc.context # <<>>
    /\ \E p \in fc.start..(fc.res[1] - 1) :
          MatchesAt(fc.lines, fc.context, p, 2)

\* The result prescribed for a context that ends with the end-of-file
\* marker.
EofLadder(lines, context, from) ==
    LET endPos == max(0, Len(lines) - Len(context))
        fwd == Ladder(lines, context, from)
    IN  IF MatchesAt(lines, context, endPos, 0) THEN <<endPos, 0>>
        ELSE IF MatchesAt(lines, context, endPos, 1) THEN <<endPos, 1>>
        ELSE IF MatchesAt(lines, context, endPos, 2) THEN <<endPos, 100>>
        ELSE IF fwd[1] # -1 THEN <<fwd[1], fwd[2] + 10000>>
        ELSE <<-1, 0>>

\* C5: with the eof flag findContext first tries the context at position
\* max(0, Len(lines) - Len(context)) under the three tiers and returns that
\* position with the tier's fuzz; failing that it returns the forward search
\* from the start with 10000 added to the fuzz, and not found if the forward
\* search fails too.
C5_EofLadder ==
    (fc.called /\ fc.eof) =>
        LET want == EofLadder(fc.lines, fc.context, fc.start)
        IN  IF want[1] = -1 THEN fc.res[1] = -1 ELSE fc.res = want

\* The context is not at the end of the file and the forward search found
\* it, with the penalty.
C5_Witness ==
    /\ fc.called /\ fc.eof
    /\ fc.res[1] # -1 /\ fc.res[2] >= 10000
    /\ fc.res[1] + Len(fc.context) < Len(fc.lines)

(***************************************************************************)
(* Claims about whole patches.                                             *)
(***************************************************************************)
Range(f) == {f[i] : i \in DOMAIN f}

\* The action header lines of a patch text, between the two sentinels.
IsHeader(line) ==
    \/ startsWith(norm(line), "*** Update File: ")
    \/ startsWith(norm(line), "*** Delete File: ")
    \/ startsWith(norm(line), "*** Add File: ")

HeaderCount(t) ==
    LET ls == split(t)
    IN  Cardinality({i \in 2..(Len(ls) - 1) : IsHeader(ls[i])})

TargetOf(c) == IF c.movePath # "" THEN c.movePath ELSE c.path

Actions(type) == {a \in Range(parser.patch) : a.type = type}

AddPaths == {a.path : a \in Actions("add")}

DeletedPaths == {a.path : a \in Actions("delete")}

PlainUpdatePaths == {a.path : a \in {u \in Actions("update") : u.movePath = ""}}

MovedFromPaths == {a.path : a \in {u \in Actions("update") : u.movePath # ""}}

MoveTargets == {a.movePath : a \in {u \in Actions("update") : u.movePath # ""}}

UnmentionedPaths ==
    (DOMAIN orig) \ ({a.path : a \in Range(parser.patch)} \cup MoveTargets)

\* C2 as stated: on success the keys of the output are exactly the Add
\* paths, the paths of Updates without a move and the move targets; deleted
\* paths, moved-from paths and unmentioned input paths are absent.
C2_KeysAsStated ==
    pc = "done" =>
        /\ DOMAIN result = AddPaths \cup PlainUpdatePaths \cup MoveTargets
        /\ (DeletedPaths \cup MovedFromPaths \cup UnmentionedPaths)
              \cap DOMAIN result = {}

\* C2 as amended: on success the keys of the output are exactly the Add
\* paths, the paths of Updates without a move and the move targets; a
\* deleted path or a moved-from path is absent unless it is the move target
\* of an Update of the same patch, and unmentioned input paths are absent.
C2_Keys ==
    pc = "done" =>
        /\ DOMAIN result = AddPaths \cup PlainUpdatePaths \cup MoveTargets
        /\ (DeletedPaths \cup MovedFromPaths) \cap DOMAIN result
              \subseteq MoveTargets
        /\ UnmentionedPaths \cap DOMAIN result = {}
        /\ parser.patch = <<>> => result = EmptyMap

\* A successful patch that moves one file and deletes another: the moved
\* file is under its new path only, the deleted one is absent.
C2_Witness ==
    /\ pc = "done"
    /\ MovedFromPaths # {} /\ MovedFromPaths \cap DOMAIN result = {}
    /\ MoveTargets \subseteq DOMAIN result

(***************************************************************************)
(* Claims about one Update.  The hunk vocabulary of the claims: a line     *)
(* starting with a space is a keep line, with - a delete line, with + an   *)
(* add line, and an entirely empty line is a keep line with empty payload. *)
(***************************************************************************)
\* The lines after the Update header, up to the closing sentinel.
UpdateBody == LET ls == split(text) IN SubSeq(ls, 3, Len(ls) - 1)

Kind(line) ==
    IF line = "" \/ charAt(line, 0) = " " THEN "keep"
    ELSE IF charAt(line, 0) = "-" THEN "delete"
    ELSE IF charAt(line, 0) = "+" THEN "add"
    ELSE "other"

Payload(line) == IF line = "" THEN "" ELSE substring(line, 1)

RECURSIVE Payloads(_, _)
Payloads(body, kinds) ==
    IF body = <<>> THEN <<>>
    ELSE (IF Kind(Head(body)) \in kinds THEN <<Payload(Head(body))>> ELSE <<>>)
         \o Payloads(Tail(body), kinds)

\* The body is one hunk without header, anchor or end-of-file marker.
PlainHunk ==
    /\ UpdateBody # <<>>
    /\ \A i \in 1..Len(UpdateBody) : Kind(UpdateBody[i]) # "other"

FileLines == split(orig["f"])

Terminated == pc \in {"done", "error"}

\* C3: for an Update made of one plain hunk whose context (keep and delete
\* payloads) first matches the file exactly at p, processPatch yields the
\* file's lines before p, then the keep and add payloads, then the file's
\* lines from p + Len(context) on.
C3_SingleHunk ==
    LET C == Payloads(UpdateBody, {"keep", "delete"})
        N == Payloads(UpdateBody, {"keep", "add"})
        at == Positions(FileLines, C, 0, 0)
        p == Least(at)
    IN  (Terminated /\ PlainHunk /\ at # {}) =>
            /\ pc = "done"
            /\ result["f"] = join(slice(FileLines, 0, p) \o N
                                  \o slice(FileLines, p + Len(C),
                                           Len(FileLines)))

\* C7: an empty line in a hunk is a keep line with empty payload: a hunk of
\* keep and empty lines whose payloads are, line for line, lines of the
\* file is found with fuzz 0 and leaves the file as it was.
C7_BlankLineKept ==
    LET C == Payloads(UpdateBody, {"keep"})
    IN  (/\ Terminated /\ PlainHunk
         /\ \A i \in 1..Len(UpdateBody) : Kind(UpdateBody[i]) = "keep"
         /\ \E i \in 1..Len(UpdateBody) : UpdateBody[i] = ""
         /\ Positions(FileLines, C, 0, 0) # {}) =>
            /\ pc = "done"
            /\ parser.fuzz = 0
            /\ result["f"] = orig["f"]

\* The parser is at a hunk header with a non-blank anchor.
AtAnchor ==
    /\ pc = "parseUpdateFile"
    /\ ~isDone(parser, UpdateEnd)
    /\ startsWith(norm(curLine(parser)), "@@ ")
    /\ trim(substring(curLine(parser), 3)) # ""

\* No file line at or after the cursor is the anchor, exactly or trimmed.
AnchorUnmatched ==
    LET anchor == substring(curLine(parser), 3)
    IN  \A i \in (upd.index + 1)..Len(upd.lines) :
           /\ upd.lines[i] # anchor
           /\ trim(upd.lines[i]) # trim(anchor)

\* C6 as stated: a hunk whose anchor matches no file line at or after the
\* cursor is rejected (here: with any error), the update does not go on to
\* locate the hunk body.
C6_UnmatchedAnchorRejected ==
    [][(AtAnchor /\ AnchorUnmatched) => pc' = "error"]_vars

\* C6 as amended: a hunk whose anchor matches no file line at or after the
\* cursor is processed as if it had no anchor: the cursor is not moved and
\* no fuzz is counted for the anchor, the hunk body is located from the
\* unchanged cursor, and the hunk is rejected with an invalid-context error
\* only when its body is not found from there.
C6_UnmatchedAnchorIgnored ==
    [][(AtAnchor /\ AnchorUnmatched) =>
          LET sec == peekNextSection(parser.lines, parser.index + 1)
              want == IF sec.eof
                      THEN EofLadder(upd.lines, sec.old, upd.index)
                      ELSE Ladder(upd.lines, sec.old, upd.index)
          IN  IF sec.err # "" THEN pc' = "error" /\ err' = sec.err
              ELSE IF want[1] = -1
              THEN pc' = "error" /\ err' \in {"Invalid context",
                                              "Invalid EOF context"}
              ELSE /\ pc' = "parseUpdateFile"
                   /\ upd'.index = want[1] + Len(sec.old)
                   /\ parser'.fuzz = parser.fuzz + want[2]
                   /\ Len(upd'.chunks) = Len(upd.chunks) + Len(sec.chunks)]_vars

\* An Update whose only anchor is trim-equal to no line of the file went
\* through.
C6_Witness ==
    /\ pc = "done"
    /\ \E i \in 1..Len(UpdateBody) :
          /\ startsWith(UpdateBody[i], "@@ ")
          /\ trim(substring(UpdateBody[i], 3)) # ""
          /\ \A k \in 1..Len(FileLines) :
                trim(FileLines[k]) # trim(substring(UpdateBody[i], 3))

(***************************************************************************)
(* End-of-file hunks: one Update of file f with hunks that may end with    *)
(* the end-of-file marker.                                                 *)
(***************************************************************************)
MaxEofLines == 4

EofLines == {" a", "-b", "+c", "@@", "*** End of File"}

EofTexts == {framed(<<"*** Update File: f">> \o b) :
               b \in SeqsUpTo(EofLines, MaxEofLines)}

EofFiles == {("f" :> "a\nb"), ("f" :> "b\nb\n")}

InitEof == Start(EofTexts, EofFiles)

SpecEof == InitEof /\ [][Next]_vars

\* textToPatch has returned: parser.patch is the Patch it returned.
Parsed ==
    \/ pc \in {"patchToCommit", "applyCommit", "done"}
    \/ pc = "error" /\ err \in {"overlapping chunks", "exceeds file length"}

Monotone(chunks) ==
    \A i \in 1..(Len(chunks) - 1) :
       chunks[i + 1].origIndex >=
          chunks[i].origIndex + Len(chunks[i].delLines)

InRange(chunks, n) == \A i \in 1..Len(chunks) : chunks[i].origIndex <= n

HasEofMarker ==
    \E i \in 1..Len(parser.lines) :
       startsWith(parser.lines[i], "*** End of File")

\* C9 as stated: in every Patch returned by textToPatch the chunks of an
\* Update are monotone (each starts at or after the end of the previous
\* one's deletion), with or without end-of-file markers, and no chunk
\* starts after the last line of the file.
C9_MonotoneAsStated ==
    Parsed =>
        \A a \in Actions("update") :
           /\ Monotone(a.chunks)
           /\ InRange(a.chunks, Len(split(orig[a.path])))

\* C9 as amended: in every Patch returned by textToPatch no chunk starts
\* after the last line of the file, and the chunks of an Update are
\* monotone when the patch text has no end-of-file marker.
C9_Monotone ==
    Parsed =>
        \A a \in Actions("update") :
           /\ InRange(a.chunks, Len(split(orig[a.path])))
           /\ ~HasEofMarker => Monotone(a.chunks)

\* A parsed Update of two hunks, without marker, with a chunk from each.
C9_Witness ==
    /\ Parsed /\ ~HasEofMarker
    /\ \E a \in Actions("update") :
          /\ Len(a.chunks) >= 2
          /\ a.chunks[2].origIndex > a.chunks[1].origIndex
    /\ \E i \in 1..Len(parser.lines) : parser.lines[i] = "@@"

(***************************************************************************)
(* patchToCommit and applyCommit on Patch values of any shape: an Update   *)
(* of file f with chunks at any offsets, alone or after an Add.            *)
(***************************************************************************)
MaxChunks == 2

MaxOrigIndex == 3

ChunkChoices == [origIndex : 0..MaxOrigIndex,
                 delLines : {<<>>, <<"a">>, <<"a", "b">>},
                 insLines : {<<>>, <<"x">>}]

AddN == [path |-> "n", type |-> "add", newFile |-> "x", chunks |-> <<>>]

UpdateF(chunks) ==
    [path |-> "f", type |-> "update", chunks |-> chunks, movePath |-> ""]

InitCommit ==
    /\ \E cs \in SeqsUpTo(ChunkChoices, MaxChunks), pre \in {<<>>, <<AddN>>} :
          parser = [lines |-> <<>>, index |-> 0, fuzz |-> 0,
                    patch |-> pre \o <<UpdateF(cs)>>]
    /\ text = ""
    /\ orig = ("f" :> "a\nb")
    /\ pc = "patchToCommit"
    /\ upd = NoUpd
    /\ commit = <<>>
    /\ result = EmptyMap
    /\ err = ""
    /\ fc = NoFc
    /\ scan = NoScan
    /\ edit = NoEdit
    /\ cli = NoCli

NextCommit ==
    \/ CallPatchToCommit
    \/ CallApplyCommit

SpecCommit == InitCommit /\ [][NextCommit]_vars

\* Some chunk starts after the last line of the file, or before the cursor
\* left by the chunk before it.
OutOfOrder(chunks, n) ==
    \/ \E i \in 1..Len(chunks) : chunks[i].origIndex > n
    \/ \E i \in 2..Len(chunks) :
          chunks[i].origIndex <
             chunks[i - 1].origIndex + Len(chunks[i - 1].delLines)

\* Two chunks delete a common line of the file.
Intersecting(chunks) ==
    \E i, j \in 1..Len(chunks) :
       /\ i < j
       /\ \E k \in 0..MaxOrigIndex + 2 :
             /\ chunks[i].origIndex <= k
             /\ k < chunks[i].origIndex + Len(chunks[i].delLines)
             /\ chunks[j].origIndex <= k
             /\ k < chunks[j].origIndex + Len(chunks[j].delLines)

\* C10: patchToCommit raises a DiffError and produces no Commit whenever a
\* chunk's origIndex exceeds the file's line count or is smaller than the
\* cursor left by the previous chunk; in particular when the deletion
\* ranges of two chunks intersect, and then no output is produced.
C10_CommitRejects ==
    (/\ pc # "patchToCommit"
     /\ \E a \in Actions("update") :
           \/ OutOfOrder(a.chunks, Len(split(orig[a.path])))
           \/ Intersecting(a.chunks)) =>
        /\ pc = "error"
        /\ err \in {"overlapping chunks", "exceeds file length"}
        /\ commit = <<>>
        /\ result = EmptyMap

\* An Add followed by an Update whose second chunk starts inside the first
\* one's deletion: the commit is refused as a whole.
C10_Witness ==
    /\ pc = "error" /\ err = "overlapping chunks"
    /\ Len(parser.patch) = 2
    /\ \E a \in Actions("update") : Intersecting(a.chunks)

(***************************************************************************)
(* Patches with a carriage return at the end of every line.                *)
(***************************************************************************)
withCR(t) == LET ls == split(t) IN join([i \in 1..Len(ls) |-> ls[i] \o "\r"])

stripCR(t) == LET ls == split(t) IN join([i \in 1..Len(ls) |-> norm(ls[i])])

CrTexts == LET base == HunkTexts \cup PatchTexts
           IN  base \cup {withCR(t) : t \in base}

InitCR == Start(CrTexts, PatchFiles)

SpecCR == InitCR /\ [][Next]_vars

\* C8: applying a patch gives the same outcome, the same output mapping or
\* a DiffError, as applying it with the trailing carriage return of every
\* line stripped.
C8_CrTolerance ==
    Terminated =>
        LET want == processPatch(stripCR(text), orig)
        IN  /\ (pc = "error") <=> (want.err # "")
            /\ pc = "done" => result = want.result

(***************************************************************************)
(* Whole patches over collections in which each path of the patches is a   *)
(* key of one collection and missing from the other.                       *)
(***************************************************************************)
KeyFiles == {("g" :> "b"), ("f" :> "a") @@ ("h" :> "c")}

InitKeys == Start(PatchTexts, KeyFiles)

SpecKeys == InitKeys /\ [][Next]_vars

\* The parser is about to read a header line with this prefix and a path.
AtHeader(prefix) ==
    /\ pc = "parse"
    /\ ~isDone(parser, {"*** End Patch"})
    /\ startsWith(norm(curLine(parser)), prefix)
    /\ Len(curLine(parser)) > Len(prefix)

HeaderPath(prefix) == substring(curLine(parser), Len(prefix))

ParsedOk == pc \in {"patchToCommit", "applyCommit", "done"}

\* C11: the parser raises a DiffError at an Update or Delete header whose
\* path is not a key of the input collection and at an Add header whose
\* path is a key of it; in every successfully parsed Patch each Update or
\* Delete path is an input key and no Add path is.
C11_PathsChecked ==
    /\ [][(\/ \E prefix \in {"*** Update File: ", "*** Delete File: "} :
                AtHeader(prefix) /\ HeaderPath(prefix) \notin DOMAIN orig
           \/ /\ AtHeader("*** Add File: ")
              /\ HeaderPath("*** Add File: ") \in DOMAIN orig)
          => (pc' = "error" /\ err' # "")]_vars
    /\ [](ParsedOk =>
            \A a \in Range(parser.patch) :
               /\ a.type \in {"update", "delete"} => a.path \in DOMAIN orig
               /\ a.type = "add" => a.path \notin DOMAIN orig)

\* An Update header naming a missing file has been rejected.
C11_Witness ==
    /\ pc = "error"
    /\ err = "Update File Error - missing file"
    /\ "f" \notin DOMAIN orig

HeaderPrefixes == {"*** Update File: ", "*** Delete File: ", "*** Add File: "}

PatchPaths == {a.path : a \in Range(parser.patch)}

\* C12: a header naming a path that an earlier action of the patch already
\* has, of whatever kind, raises a DiffError; a parsed Patch has one action
\* per header line of the text, each with a path of its own.
C12_OneActionPerPath ==
    /\ [][(\E prefix \in HeaderPrefixes :
              AtHeader(prefix) /\ HeaderPath(prefix) \in PatchPaths)
          => (pc' = "error" /\ err' # "")]_vars
    /\ [](ParsedOk =>
            /\ Len(parser.patch) = HeaderCount(text)
            /\ Cardinality(PatchPaths) = Len(parser.patch))

\* An Add header naming the path of an earlier Delete has been rejected.
C12_Witness ==
    /\ pc = "error"
    /\ err = "Duplicate add"
    /\ \E a \in Range(parser.patch) : a.type = "delete" /\ a.path = "g"

\* The path under which a change of the commit is written.
OutputPath(c) ==
    IF c.type = "update" /\ c.movePath # "" THEN c.movePath ELSE c.path

\* C13: in a successful processPatch the destination of a move differs from
\* the output path of every other action that writes a file (every Add
\* path, every Update path without a move, every other move destination),
\* so each of these actions has its content in the output.
C13_MoveTargetFree ==
    pc = "done" =>
        \A i \in 1..Len(commit) :
           (commit[i].type = "update" /\ commit[i].movePath # "") =>
              /\ \A j \in (1..Len(commit)) \ {i} :
                    commit[j].type # "delete" =>
                       OutputPath(commit[j]) # commit[i].movePath
              /\ result[commit[i].movePath] = commit[i].newContent

\* C14 as stated: on success the output paths are the input paths without
\* the deleted and moved-from ones, together with the added paths, the move
\* targets and the updated paths (those updated in place).
C14_PathsAsStated ==
    pc = "done" =>
        DOMAIN result =
            ((DOMAIN orig \ DeletedPaths) \ MovedFromPaths)
               \cup AddPaths \cup MoveTargets \cup PlainUpdatePaths

\* C14 as amended: on success the output paths are the input paths that the
\* patch's actions name, without the deleted and moved-from ones, together
\* with the added paths, the move targets and the paths updated in place.
C14_Paths ==
    pc = "done" =>
        DOMAIN result =
            (((DOMAIN orig \cap PatchPaths) \ DeletedPaths) \ MovedFromPaths)
               \cup AddPaths \cup MoveTargets \cup PlainUpdatePaths

\* A successful move in a collection that has a file the patch does not
\* name: the output has the move target and not that file.
C14_Witness ==
    /\ pc = "done"
    /\ MovedFromPaths # {}
    /\ UnmentionedPaths # {}
    /\ UnmentionedPaths \cap DOMAIN result = {}
    /\ MoveTargets \subseteq DOMAIN result

(***************************************************************************)
(* The pre-parse scans followed by processPatch, on texts in which headers *)
(* of the three kinds come in any order and the closing sentinel may also  *)
(* occur inside the body.                                                  *)
(***************************************************************************)
InitScan ==
    /\ text \in SentinelTexts
    /\ orig \in PatchFiles
    /\ pc = "identifyFilesNeeded"
    /\ parser = NoParser
    /\ upd = NoUpd
    /\ commit = <<>>
    /\ result = EmptyMap
    /\ err = ""
    /\ fc = NoFc
    /\ scan = NoScan
    /\ edit = NoEdit
    /\ cli = NoCli

NextScan ==
    \/ CallIdentifyFilesNeeded
    \/ CallIdentifyFilesAdded
    \/ Next

SpecScan == InitScan /\ [][NextScan]_vars

Scanned == pc \notin {"identifyFilesNeeded", "identifyFilesAdded"}

\* The paths after any of the prefixes, in the order of their lines.
RECURSIVE DocumentOrder(_, _)
DocumentOrder(lines, prefixes) ==
    IF lines = <<>> THEN <<>>
    ELSE LET hit == {p \in prefixes : startsWith(Head(lines), p)}
         IN  (IF hit = {} THEN <<>>
              ELSE <<substring(Head(lines), Len(CHOOSE p \in hit : TRUE))>>)
             \o DocumentOrder(Tail(lines), prefixes)

\* C15 as stated: identifyFilesNeeded returns the Update and Delete paths
\* in the order of their header lines in the text, and identifyFilesAdded
\* the Add paths in that order.
C15_DocumentOrder ==
    Scanned =>
        /\ scan.needed = DocumentOrder(split(text), {"*** Update File: ",
                                                     "*** Delete File: "})
        /\ scan.added = DocumentOrder(split(text), {"*** Add File: "})

\* C15 as amended: identifyFilesNeeded returns the Update paths in the
\* order of their header lines followed by the Delete paths in the order of
\* theirs; identifyFilesAdded returns the Add paths in the order of their
\* header lines.
C15_UpdatesThenDeletes ==
    Scanned =>
        /\ scan.needed = DocumentOrder(split(text), {"*** Update File: "})
                         \o DocumentOrder(split(text), {"*** Delete File: "})
        /\ scan.added = DocumentOrder(split(text), {"*** Add File: "})

\* A text whose Delete header precedes its Update header has been scanned.
C15_Witness ==
    /\ Scanned
    /\ scan.needed = <<"f", "g">>
    /\ LET ls == split(text)
       IN  \E i, j \in 1..Len(ls) :
              /\ i < j
              /\ ls[i] = "*** Delete File: g"
              /\ ls[j] = "*** Update File: f"

\* C16: for a text that textToPatch parses successfully, the paths returned
\* by identifyFilesNeeded are, as a set, the paths of the Update and Delete
\* actions of the parsed Patch, and those returned by identifyFilesAdded
\* the paths of its Add actions.
C16_ScansAgree ==
    ParsedOk =>
        /\ Range(scan.needed) =
              {a.path : a \in Actions("update") \cup Actions("delete")}
        /\ Range(scan.added) = AddPaths

(***************************************************************************)
(* Texts with and without their frame: any short sequence of sentinel,     *)
(* blank, header and hunk lines, given to processPatch or, by a caller     *)
(* that runs the pipeline itself, directly to textToPatch.                 *)
(***************************************************************************)
MaxFrameLines == 4

FrameLines == {"*** Begin Patch", "*** Begin Patch\r", "*** End Patch",
               "*** End Patch\r", "", "*** Update File: f", " a"}

FramingTexts == {join(ls) : ls \in SeqsUpTo(FrameLines, MaxFrameLines)}

InitFraming ==
    /\ text \in FramingTexts
    /\ orig = ("f" :> "a\nb")
    /\ pc \in {"processPatch", "textToPatch"}
    /\ parser = NoParser
    /\ upd = NoUpd
    /\ commit = <<>>
    /\ result = EmptyMap
    /\ err = ""
    /\ fc = NoFc
    /\ scan = NoScan
    /\ edit = NoEdit
    /\ cli = NoCli

SpecFraming == InitFraming /\ [][Next]_vars

WithoutCR(line) ==
    IF line # "" /\ SubSeq(line, Len(line), Len(line)) = "\r"
    THEN SubSeq(line, 1, Len(line) - 1) ELSE line

\* The text is not well-formed: fewer than two lines, or a first line that
\* does not start with the opening sentinel, or a last line that is not the
\* closing sentinel, carriage returns aside.
IllFramed(t) ==
    LET ls == split(t)
    IN  \/ Len(ls) < 2
        \/ ~startsWith(WithoutCR(ls[1]), "*** Begin Patch")
        \/ WithoutCR(ls[Len(ls)]) # "*** End Patch"

FramingError ==
    /\ pc = "error"
    /\ err \in {"Invalid patch text - missing sentinels",
                "Patch text must start with *** Begin Patch"}
    /\ parser = NoParser

EndsWithNewline(s) == s # "" /\ SubSeq(s, Len(s), Len(s)) = "\n"

\* The hunks of the Update have keep lines only, headers and markers aside.
KeepOnly ==
    \A i \in 1..Len(UpdateBody) :
       \/ Kind(UpdateBody[i]) = "keep"
       \/ startsWith(UpdateBody[i], "@@")
       \/ UpdateBody[i] = "*** End of File"

LastLine(s) == LET ls == split(s) IN ls[Len(ls)]

\* C18 as stated: after a successful Update the new content ends with a
\* newline if and only if the original content did, and an Update whose
\* hunks have keep lines only leaves the content as it was.
C18_NewlineAsStated ==
    pc = "done" =>
        /\ EndsWithNewline(result["f"]) <=> EndsWithNewline(orig["f"])
        /\ KeepOnly => result["f"] = orig["f"]

\* C18 as amended: after a successful Update in which every chunk ends
\* before the original's last line, the last line of the new content is the
\* last line of the original; an Update whose hunks have keep lines only
\* leaves the content as it was, final newline included.
C18_LastLineKept ==
    pc = "done" =>
        /\ (\A a \in Actions("update") :
               \A k \in 1..Len(a.chunks) :
                  a.chunks[k].origIndex + Len(a.chunks[k].delLines)
                     <= Len(FileLines) - 1)
             => LastLine(result["f"]) = LastLine(orig["f"])
        /\ KeepOnly => result["f"] = orig["f"]

\* A file with a final newline has been edited before its last line and
\* has kept the newline.
C18_Witness ==
    /\ pc = "done"
    /\ EndsWithNewline(orig["f"])
    /\ EndsWithNewline(result["f"])
    /\ result["f"] # orig["f"]

(***************************************************************************)
(* The usage example of the README: its file, its patch text and the       *)
(* variations of it, with and without the line breaks that the template    *)
(* literal puts around the sentinels, and with any short hunk made of the  *)
(* example's three hunk lines.                                             *)
(***************************************************************************)
MaxReadmeHunk == 3

ReadmeFiles == ("example.ts" :> "console.log(\"Hello World\");")

ReadmeHunk == <<" console.log(\"Hello World\");",
                "-console.log(\"Hello World\");",
                "+console.log(\"Hello, DeePaste!\");">>

ReadmeFrame(hunk) ==
    join(<<"*** Begin Patch", "*** Update File: example.ts">> \o hunk
         \o <<"*** End Patch">>)

ReadmeText == "\n" \o ReadmeFrame(ReadmeHunk) \o "\n"

ReadmeTexts ==
    {lead \o ReadmeFrame(h) \o trail :
        lead \in {"", "\n"}, trail \in {"", "\n"},
        h \in SeqsUpTo(Range(ReadmeHunk), MaxReadmeHunk)}

InitReadme == Start(ReadmeTexts, {ReadmeFiles})

SpecReadme == InitReadme /\ [][Next]_vars

\* C19: processPatch called with the README's example patch text and files
\* returns a mapping whose example.ts is the documented new content.
C19_ReadmeExample ==
    (text = ReadmeText /\ orig = ReadmeFiles /\ Terminated) =>
        /\ pc = "done"
        /\ result["example.ts"] = "console.log(\"Hello, DeePaste!\");"

(***************************************************************************)
(* Patches that begin with an Add of file n: body lines with and without   *)
(* the leading +, blank lines, and the headers of further actions.         *)
(***************************************************************************)
MaxAddLines == 3

AddLines == {"+x", "+", "+ y", "", " a", "*** Delete File: g",
             "*** Update File: f"}

AddTexts == {framed(<<"*** Add File: n">> \o b) :
               b \in SeqsUpTo(AddLines, MaxAddLines)}

InitAdd == Start(AddTexts, {("f" :> "a") @@ ("g" :> "b")})

SpecAdd == InitAdd /\ [][Next]_vars

\* A line that ends an Add body: an action header or the closing sentinel.
EndsAddBody(line) ==
    \E prefix \in HeaderPrefixes \cup {"*** End Patch"} :
       startsWith(WithoutCR(line), prefix)

RECURSIVE UpToEnd(_)
UpToEnd(lines) ==
    IF lines = <<>> \/ EndsAddBody(Head(lines)) THEN <<>>
    ELSE <<Head(lines)>> \o UpToEnd(Tail(lines))

\* The body of the Add that the text begins with.
AddBody == LET ls == split(text) IN UpToEnd(SubSeq(ls, 3, Len(ls)))

AllPlus == \A i \in 1..Len(AddBody) : startsWith(AddBody[i], "+")

AddContent == join([i \in 1..Len(AddBody) |-> substring(AddBody[i], 1)])

\* C20: the content of an added file is the payloads of its body lines, the
\* lines up to the next header or the closing sentinel without their +,
\* joined with newlines and with no newline appended; a body line that does
\* not begin with +, an empty line included, raises a DiffError and no file
\* is added.
C20_AddFile ==
    IF AllPlus
    THEN /\ Len(parser.patch) >= 1 =>
              /\ parser.patch[1].type = "add"
              /\ parser.patch[1].newFile = AddContent
         /\ pc = "done" => result["n"] = AddContent
    ELSE /\ parser.patch = <<>>
         /\ result = EmptyMap
         /\ pc \notin {"patchToCommit", "applyCommit", "done"}
         /\ pc = "error" => err = "Invalid Add File line"

\* A file of two lines, the second one empty, has been added.
C20_Witness ==
    /\ pc = "done"
    /\ AddBody = <<"+x", "+">>
    /\ result["n"] = "x\n"

(***************************************************************************)
(* Claims about the step that processes one hunk of an Update.             *)
(***************************************************************************)
\* The parser is about to process a hunk.
AtHunk == pc = "parseUpdateFile" /\ ~isDone(parser, UpdateEnd)

\* The hunk's body: the section that follows its header line, if it has one.
HunkSection ==
    peekNextSection(parser.lines,
                    IF startsWith(norm(curLine(parser)), "@@")
                    THEN parser.index + 1 ELSE parser.index)

\* Where the hunk's anchor, if it has one, puts the cursor, and its fuzz.
HunkAnchor ==
    IF AtAnchor
    THEN anchorSearch(upd.lines, upd.index, substring(curLine(parser), 3))
    ELSE [index |-> upd.index, fuzz |-> 0, found |-> FALSE]

\* C21 as stated: a hunk whose context lines occur verbatim and
\* contiguously in the target file adds no fuzz for its context (the fuzz
\* of a trim-equal anchor aside).
C21_VerbatimNoFuzz ==
    [][(/\ AtHunk
        /\ HunkSection.err = ""
        /\ Positions(upd.lines, HunkSection.old, 0, 0) # {}
        /\ pc' = "parseUpdateFile")
       => parser'.fuzz = parser.fuzz + HunkAnchor.fuzz]_vars

\* C21 as amended: a hunk without end-of-file marker whose context lines
\* occur verbatim and contiguously at or after the cursor, and a hunk with
\* the marker whose context lines are verbatim the last lines of the file,
\* add no fuzz for their context (the fuzz of a trim-equal anchor aside).
C21_VerbatimAtCursorNoFuzz ==
    [][(/\ AtHunk
        /\ HunkSection.err = ""
        /\ IF HunkSection.eof
           THEN MatchesAt(upd.lines, HunkSection.old,
                          max(0, Len(upd.lines) - Len(HunkSection.old)), 0)
           ELSE Positions(upd.lines, HunkSection.old, HunkAnchor.index, 0)
                   # {}
        /\ pc' = "parseUpdateFile")
       => parser'.fuzz = parser.fuzz + HunkAnchor.fuzz]_vars

\* An Update with an end-of-file hunk whose context is the end of the file
\* has been applied without fuzz.
C21_Witness ==
    /\ pc = "done"
    /\ parser.fuzz = 0
    /\ HasEofMarker
    /\ \E a \in Actions("update") :
          \E k \in 1..Len(a.chunks) : a.chunks[k].origIndex >= 1

(***************************************************************************)
(* lib/partial-edit.ts: extractPatchFromResponse, generatePatchAndApply    *)
(* and partialEdit.  The model's answer is an input: any of a set of       *)
(* responses, or a failure of the call.                                    *)
(***************************************************************************)
indexOf(s, sub) ==
    LET at == {i \in 0..(Len(s) - Len(sub)) :
                  SubSeq(s, i + 1, i + Len(sub)) = sub}
    IN  IF at = {} THEN -1 ELSE CHOOSE i \in at : \A j \in at : i <= j

tempFileName == "origin.tmp"

beginMarker == "*** Begin Patch"

endMarker == "*** End Patch"

extractPatchFromResponse(response) ==
    LET beginIndex == indexOf(response, beginMarker)
        endIndex == indexOf(response, endMarker)
    IN  IF beginIndex = -1 \/ endIndex = -1 \/ beginIndex >= endIndex
        THEN [patch |-> "", err |-> "Invalid patch format in LLM response"]
        ELSE [patch |-> SubSeq(response, beginIndex + 1,
                               endIndex + Len(endMarker)),
              err |-> ""]

\* The patch generatePatchAndApply uses when nothing could be extracted.
fallbackPatch ==
    "*** Begin Patch\n*** Update File: " \o tempFileName
       \o "\n // Could not properly generate patch\n*** End Patch"

\* JSON.stringify and JSON.parse of the object {patch, finalContent}: the
\* string escapes of the characters that occur, and their decoding.
RECURSIVE concat(_, _, _)
concat(parts, lo, hi) ==
    IF lo > hi THEN ""
    ELSE IF lo = hi THEN parts[lo]
    ELSE LET mid == (lo + hi) \div 2
         IN  concat(parts, lo, mid) \o concat(parts, mid + 1, hi)

jsonEscape(c) ==
    IF c = "\"" THEN "\\\""
    ELSE IF c = "\\" THEN "\\\\"
    ELSE IF c = "\n" THEN "\\n"
    ELSE IF c = "\r" THEN "\\r"
    ELSE IF c = "\t" THEN "\\t"
    ELSE c

jsonQuote(s) ==
    "\"" \o concat([i \in 1..Len(s) |-> jsonEscape(charAt(s, i - 1))],
                   1, Len(s)) \o "\""

jsonStringify(obj) ==
    "{\"patch\":" \o jsonQuote(obj.patch)
       \o ",\"finalContent\":" \o jsonQuote(obj.finalContent) \o "}"

\* The number of backslashes right before position i (from 1) of s.
backslashesBefore(s, i) ==
    LET others == {j \in 1..(i - 1) : charAt(s, j - 1) # "\\"}
        last == IF others = {} THEN 0
                ELSE CHOOSE j \in others : \A k \in others : k <= j
    IN  i - 1 - last

escaped(s, i) == backslashesBefore(s, i) % 2 = 1

jsonUnescape(c) ==
    IF c = "n" THEN "\n"
    ELSE IF c = "r" THEN "\r"
    ELSE IF c = "t" THEN "\t"
    ELSE c

jsonUnquote(s) ==
    concat([i \in 1..Len(s) |->
              LET c == charAt(s, i - 1)
              IN  IF escaped(s, i) THEN jsonUnescape(c)
                  ELSE IF c = "\\" THEN ""
                  ELSE c],
           1, Len(s))

\* The k-th smallest element of a set of numbers.
RECURSIVE nth(_, _)
nth(S, k) ==
    LET least == CHOOSE i \in S : \A j \in S : i <= j
    IN  IF k = 1 THEN least ELSE nth(S \ {least}, k - 1)

\* The member of the object with this key: the string literals of the text
\* are delimited by its unescaped quotes, keys and values alternating.
jsonMember(json, key) ==
    LET quotes == {i \in 1..Len(json) :
                      charAt(json, i - 1) = "\"" /\ ~escaped(json, i)}
        literal(k) == SubSeq(json, nth(quotes, 2 * k - 1) + 1,
                             nth(quotes, 2 * k) - 1)
        k == CHOOSE k \in {1, 3} : jsonUnquote(literal(k)) = key
    IN  jsonUnquote(literal(k + 1))

jsonParse(json) ==
    [patch |-> jsonMember(json, "patch"),
     finalContent |-> jsonMember(json, "finalContent")]

\* generatePatchAndApply up to the model's answer: the file collection is
\* built and the model is called; the call may fail.
Responses ==
    {"I cannot do that.",
     "*** End Patch\n*** Begin Patch",
     "*** Begin Patch\n*** End Patch",
     "Sure:\n*** Begin Patch\n*** Update File: origin.tmp\n a\n-b\n+c\n*** End Patch\nDone.",
     "*** Begin Patch\n*** Update File: origin.tmp\n-zz\n*** End Patch",
     "*** Begin Patch\n*** Update File: origin.tmp\n-a\n-b\n*** End Patch",
     "*** Begin Patch\n*** Delete File: origin.tmp\n*** End Patch",
     "*** Begin Patch\n*** Update File: origin.tmp\n a\n+say \"hi\\there\"\n*** End Patch"}

CallModel ==
    /\ pc = "partialEdit"
    /\ orig' = (tempFileName :> edit.originalContent)
    /\ \/ /\ \E r \in Responses : edit' = [edit EXCEPT !.response = r]
          /\ pc' = "extractPatch"
          /\ err' = err
       \/ /\ pc' = "error"
          /\ err' = "model.invoke failed"
          /\ edit' = edit
    /\ UNCHANGED <<text, parser, upd, commit, result, fc, scan, cli>>

\* Lines 114-125: the patch is extracted, or replaced by the fallback, and
\* given to processPatch.
ExtractPatch ==
    /\ pc = "extractPatch"
    /\ LET r == extractPatchFromResponse(edit.response)
           fullPatch == IF r.err # "" THEN fallbackPatch ELSE r.patch
       IN  /\ text' = fullPatch
           /\ edit' = [edit EXCEPT !.patch = fullPatch]
    /\ pc' = "processPatch"
    /\ UNCHANGED <<orig, parser, upd, commit, result, err, fc, scan, cli>>

\* result[tempFileName] || ""
finalContentOf(res) ==
    IF tempFileName \in DOMAIN res /\ res[tempFileName] # ""
    THEN res[tempFileName] ELSE ""

\* Lines 126-133: processPatch has returned; the answer is serialised.
ReturnJson ==
    /\ pc = "done"
    /\ edit' = [edit EXCEPT
                  !.json = jsonStringify([patch |-> edit.patch,
                                          finalContent |->
                                             finalContentOf(result)])]
    /\ pc' = "parseJson"
    /\ UNCHANGED <<text, orig, parser, upd, commit, result, err, fc, scan,
                   cli>>

\* partialEdit: the tool's answer is parsed and returned.
ReturnPartialEdit ==
    /\ pc = "parseJson"
    /\ LET r == jsonParse(edit.json)
       IN  edit' = [edit EXCEPT !.patch = r.patch,
                                !.finalContent = r.finalContent,
                                !.returned = TRUE]
    /\ pc' = "returned"
    /\ UNCHANGED <<text, orig, parser, upd, commit, result, err, fc, scan,
                   cli>>

NextEdit ==
    \/ CallModel
    \/ ExtractPatch
    \/ ReturnJson
    \/ ReturnPartialEdit
    \/ Next

OriginalContents == {"a\nb", "x\n// Could not properly generate patch", ""}

InitEdit ==
    /\ \E c \in OriginalContents : edit = [NoEdit EXCEPT !.originalContent = c]
    /\ pc = "partialEdit"
    /\ text = ""
    /\ orig = EmptyMap
    /\ parser = NoParser
    /\ upd = NoUpd
    /\ commit = <<>>
    /\ result = EmptyMap
    /\ err = ""
    /\ fc = NoFc
    /\ scan = NoScan
    /\ cli = NoCli

SpecEdit == InitEdit /\ [][NextEdit]_vars

\* The response has the opening marker somewhere before the closing one.
HasPatch(response) ==
    \E i, j \in 0..Len(response) :
       /\ i < j
       /\ startsWith(substring(response, i), beginMarker)
       /\ startsWith(substring(response, j), endMarker)

\* C22: when the response has no opening marker followed later by the
\* closing one, partialEdit does not fail: the placeholder patch is used
\* and an object with a patch and a finalContent is returned, whatever the
\* original content.
C22_FallbackReturns ==
    (edit.patch # "" /\ ~HasPatch(edit.response)) =>
        /\ edit.patch = fallbackPatch
        /\ pc # "error"
        /\ pc = "returned" => edit.returned

(***************************************************************************)
(* examples/partial-edit-cli-demo/partial-edit-cli.ts: main.  argv is      *)
(* process.argv, disk the files that exist with their contents, ops the    *)
(* file operations performed so far, exit the exit code once the process   *)
(* has ended and stderr the message it printed.  Reading, renaming and     *)
(* writing a file may each fail with an exception.                         *)
(***************************************************************************)
exitWith(code, message) == [cli EXCEPT !.exit = code, !.stderr = message]

\* Lines 16-45: the checks of the arguments, the read of the file and the
\* call of partialEdit.
Main ==
    /\ pc = "main"
    /\ IF Len(cli.argv) < 4
       THEN /\ cli' = exitWith(1, "Usage")
            /\ pc' = "exit"
            /\ edit' = edit
       ELSE LET filePath == cli.argv[3]
                task == cli.argv[4]
            IN  IF filePath = "" \/ filePath \notin DOMAIN cli.disk
                THEN /\ cli' = exitWith(1, "Error: File does not exist.")
                     /\ pc' = "exit"
                     /\ edit' = edit
                ELSE IF task = ""
                THEN /\ cli' = exitWith(1, "Error: Task description is required")
                     /\ pc' = "exit"
                     /\ edit' = edit
                ELSE \/ /\ edit' = [NoEdit EXCEPT !.originalContent =
                                                     cli.disk[filePath]]
                        /\ pc' = "partialEdit"
                        /\ cli' = cli
                     \/ /\ cli' = exitWith(1, "Error: readFileSync")
                        /\ pc' = "exit"
                        /\ edit' = edit
    /\ UNCHANGED <<text, orig, parser, upd, commit, result, err, fc, scan>>

\* Line 50: renameSync(filePath, backupPath).
Backup ==
    /\ pc = "returned"
    /\ LET filePath == cli.argv[3]
           backupPath == filePath \o ".old"
       IN  \/ /\ cli' = [cli EXCEPT
                           !.disk = [p \in ((DOMAIN cli.disk) \ {filePath})
                                              \cup {backupPath} |->
                                        IF p = backupPath
                                        THEN cli.disk[filePath]
                                        ELSE cli.disk[p]],
                           !.ops = Append(@, "rename")]
              /\ pc' = "writeContent"
           \/ /\ cli' = exitWith(1, "Error: renameSync")
              /\ pc' = "exit"
    /\ UNCHANGED <<text, orig, parser, upd, commit, result, err, fc, scan,
                   edit>>

\* Line 54: writeFileSync(filePath, finalContent).
WriteContent ==
    /\ pc = "writeContent"
    /\ \/ /\ cli' = [cli EXCEPT
                       !.disk = put(@, cli.argv[3], edit.finalContent),
                       !.ops = Append(@, "write")]
          /\ pc' = "writePatch"
       \/ /\ cli' = exitWith(1, "Error: writeFileSync")
          /\ pc' = "exit"
    /\ UNCHANGED <<text, orig, parser, upd, commit, result, err, fc, scan,
                   edit>>

\* A handler that reports the error and lets the process end normally.
CatchErrorExitingZero ==
    /\ pc = "error"
    /\ cli' = exitWith(0, "Error: " \o err)
    /\ pc' = "exit"
    /\ UNCHANGED <<text, orig, parser, upd, commit, result, err, fc, scan,
                   edit>>

\* Lines 63-66: partialEdit has thrown.
CatchError ==
    /\ pc = "error"
    /\ cli' = exitWith(1, "Error: " \o err)
    /\ pc' = "exit"
    /\ UNCHANGED <<text, orig, parser, upd, commit, result, err, fc, scan,
                   edit>>

\* Lines 57-61: writeFileSync(patchPath, patch), and the end of main.
WritePatch ==
    /\ pc = "writePatch"
    /\ \/ /\ cli' = [cli EXCEPT
                       !.disk = put(@, cli.argv[3] \o ".patch", edit.patch),
                       !.ops = Append(@, "writePatch"),
                       !.exit = 0]
          /\ pc' = "exit"
       \/ /\ cli' = exitWith(1, "Error: writeFileSync")
          /\ pc' = "exit"
    /\ UNCHANGED <<text, orig, parser, upd, commit, result, err, fc, scan,
                   edit>>

NextCli ==
    \/ Main
    \/ Backup
    \/ WriteContent
    \/ WritePatch
    \/ CatchError
    \/ NextEdit

CliArgs == {<<>>, <<"f.ts">>, <<"f.ts", "">>, <<"f.ts", "task">>,
            <<"g.ts", "task">>, <<"", "task">>}

CliDisks == {("f.ts" :> "a\nb"), ("f.ts" :> "")}

InitCli ==
    /\ \E args \in CliArgs, disk \in CliDisks :
          cli = [NoCli EXCEPT !.argv = <<"bun", "partial-edit-cli.ts">>
                                          \o args,
                              !.disk = disk]
    /\ pc = "main"
    /\ edit = NoEdit
    /\ text = ""
    /\ orig = EmptyMap
    /\ parser = NoParser
    /\ upd = NoUpd
    /\ commit = <<>>
    /\ result = EmptyMap
    /\ err = ""
    /\ fc = NoFc
    /\ scan = NoScan

SpecCli == InitCli /\ [][NextCli]_vars

IsPrefix(s, t) == Len(s) <= Len(t) /\ s = SubSeq(t, 1, Len(s))

\* C23: the CLI renames the file to its .old name, then writes the new
\* content, then writes the patch, and only after partialEdit has returned;
\* when the file is missing, the task is missing or partialEdit raises, the
\* process exits with code 1 and has performed none of the three.
C23_CliOrder ==
    /\ IsPrefix(cli.ops, <<"rename", "write", "writePatch">>)
    /\ cli.ops # <<>> => edit.returned
    /\ pc = "exit" =>
         /\ (\/ Len(cli.argv) < 4
             \/ cli.argv[3] = ""
             \/ cli.argv[4] = ""
             \/ cli.stderr = "Error: File does not exist."
             \/ err # "") => (cli.exit = 1 /\ cli.ops = <<>>)
         /\ cli.exit = 0 => cli.ops = <<"rename", "write", "writePatch">>

\* partialEdit raised a DiffError of the engine and the process exited with
\* code 1, the file untouched.
C23_Witness ==
    /\ pc = "exit"
    /\ err = "Invalid context"
    /\ cli.exit = 1
    /\ cli.disk = ("f.ts" :> "a\nb")

(***************************************************************************)
(* Anchors: one Update of file f whose hunks have anchors that equal file  *)
(* lines exactly, up to surrounding whitespace, or not at all.             *)
(***************************************************************************)
MaxAnchorLines == 3

AnchorLines == {"@@ a", "@@ b", " a", " b", "-b", "+c", "*** End of File"}

AnchorTexts == {framed(<<"*** Update File: f">> \o b) :
                  b \in SeqsUpTo(AnchorLines, MaxAnchorLines)}

AnchorFiles == {("f" :> "a\nb"), ("f" :> " a\nb\na"), ("f" :> "b\na \nb")}

InitAnchor == Start(AnchorTexts, AnchorFiles)

SpecAnchor == InitAnchor /\ [][Next]_vars

\* The indexes (from 0) in from..to of the file lines that equal the anchor,
\* exactly (rel = 0) or after trimming both (rel = 2).
AnchorAt(rel, from, to) ==
    {k \in from..to :
        Related(rel, upd.lines[k + 1], substring(curLine(parser), 3))}

\* The cursor and the fuzz that the rule of C24 gives for the anchor.
AnchorRule ==
    LET i == upd.index
        n == Len(upd.lines)
    IN  IF AnchorAt(0, i, n - 1) # {} /\ AnchorAt(0, 0, i - 1) = {}
        THEN [index |-> Least(AnchorAt(0, i, n - 1)) + 1, fuzz |-> 0]
        ELSE IF AnchorAt(2, i, n - 1) # {} /\ AnchorAt(2, 0, i - 1) = {}
        THEN [index |-> Least(AnchorAt(2, i, n - 1)) + 1, fuzz |-> 1]
        ELSE [index |-> i, fuzz |-> 0]

\* The step has accepted the hunk with its body located at newIndex, after
\* a search from the cursor that the rule gives.
LocatedFromAnchor(newIndex) ==
    LET want == IF HunkSection.eof
                THEN EofLadder(upd.lines, HunkSection.old, AnchorRule.index)
                ELSE Ladder(upd.lines, HunkSection.old, AnchorRule.index)
    IN  /\ newIndex = want[1]
        /\ parser'.fuzz = parser.fuzz + AnchorRule.fuzz + want[2]

\* C24 as stated: an anchor that equals a line at or after the cursor and
\* none before it moves the cursor past the first such line without fuzz;
\* otherwise one that is trim-equal to a line at or after the cursor and to
\* none before it moves the cursor past the first such line with fuzz 1;
\* the cursor never moves backwards, and the hunk body is located at or
\* after the new cursor.
C24_AnchorThenBody ==
    [][(AtAnchor /\ pc' = "parseUpdateFile") =>
          LET newIndex == upd'.index - Len(HunkSection.old)
          IN  /\ LocatedFromAnchor(newIndex)
              /\ AnchorRule.index >= upd.index
              /\ newIndex >= AnchorRule.index]_vars

\* C24 as amended: the same rule for the cursor and the fuzz; the body of a
\* hunk without end-of-file marker is located at or after the new cursor,
\* and the body of a hunk with the marker at the end of the file when its
\* context matches there, wherever the cursor is.
C24_AnchorThenBodyUnlessEof ==
    [][(AtAnchor /\ pc' = "parseUpdateFile") =>
          LET newIndex == upd'.index - Len(HunkSection.old)
          IN  /\ LocatedFromAnchor(newIndex)
              /\ AnchorRule.index >= upd.index
              /\ ~HunkSection.eof => newIndex >= AnchorRule.index]_vars

\* An Update whose anchor is trim-equal to a file line, and equal to none,
\* has been applied with the anchor's fuzz of 1.
C24_Witness ==
    /\ pc = "done"
    /\ parser.fuzz = 1
    /\ \E i \in 1..Len(UpdateBody) :
          /\ startsWith(UpdateBody[i], "@@ ")
          /\ \A k \in 1..Len(FileLines) :
                FileLines[k] # substring(UpdateBody[i], 3)

(***************************************************************************)
(* Empty sections: one Update of file f whose hunk headers may be followed *)
(* at once by any section-ending sentinel.                                 *)
(***************************************************************************)
MaxEmptyLines == 3

EmptyLines == {"@@", "@@ a", " a", "*** End of File", "*** Update File: g",
               "*** Delete File: g", "*** Add File: n"}

EmptyTexts == {framed(<<"*** Update File: f">> \o b) :
                 b \in SeqsUpTo(EmptyLines, MaxEmptyLines)}

InitEmpty == Start(EmptyTexts, PatchFiles)

SpecEmpty == InitEmpty /\ [][Next]_vars

\* The parser is at a hunk header, `@@` or `@@ <anchor>`.
AtHunkHeader ==
    /\ AtHunk
    /\ \/ norm(curLine(parser)) = "@@"
       \/ startsWith(norm(curLine(parser)), "@@ ")

\* The line after the one the parser is at.
LineAfter == parser.lines[parser.index + 2]

\* C25: a hunk header followed at once by a section-ending sentinel (`@@`,
\* `*** End Patch`, `*** Update File:`, `*** Delete File:`, `*** Add File:`
\* or `*** End of File`) raises a DiffError.
C25_EmptySection ==
    [][(AtHunkHeader /\ isSectionEnd(LineAfter)) => pc' = "error"]_vars

\* The same for every sentinel but `*** End of File`.
C25_EmptySectionButEof ==
    [][(AtHunkHeader /\ isSectionEnd(LineAfter)
          /\ LineAfter # "*** End of File") => pc' = "error"]_vars

(***************************************************************************)
(* Claims about end-of-file hunks and the text's final lines.              *)
(***************************************************************************)
\* The lines of the target file's text, a final newline ending the last
\* line rather than starting another.
TextLines ==
    LET content == orig["f"]
    IN  IF EndsWithNewline(content)
        THEN split(SubSeq(content, 1, Len(content) - 1))
        ELSE split(content)

\* The context is, line for line, the final lines of the file's text.
ContextAtEndOfText(context) ==
    /\ Len(context) <= Len(TextLines)
    /\ SubSeq(TextLines, Len(TextLines) - Len(context) + 1, Len(TextLines))
          = context

\* C26: an end-of-file hunk whose context is, line for line, the final
\* lines of the file's text is accepted without the penalty of 10000,
\* whether or not the content ends with a newline; only end-of-file hunks
\* whose context is not at the end of the file get the penalty.
C26_EofAtEndOfText ==
    [][/\ (AtHunk /\ HunkSection.err = "" /\ HunkSection.eof
             /\ ContextAtEndOfText(HunkSection.old))
          => (pc' = "parseUpdateFile" /\ parser'.fuzz < parser.fuzz + FuzzEof)
       /\ (AtHunk /\ pc' = "parseUpdateFile"
             /\ parser'.fuzz >= parser.fuzz + FuzzEof)
          => (HunkSection.eof /\ ~ContextAtEndOfText(HunkSection.old))]_vars

\* The same for files whose content does not end with a newline.
C26_EofAtEndNoFinalNewline ==
    [][~EndsWithNewline(orig["f"]) =>
         /\ (AtHunk /\ HunkSection.err = "" /\ HunkSection.eof
               /\ ContextAtEndOfText(HunkSection.old))
            => (pc' = "parseUpdateFile"
                  /\ parser'.fuzz < parser.fuzz + FuzzEof)
         /\ (AtHunk /\ pc' = "parseUpdateFile"
               /\ parser'.fuzz >= parser.fuzz + FuzzEof)
            => (HunkSection.eof /\ ~ContextAtEndOfText(HunkSection.old))]_vars

(***************************************************************************)
(* Claims about patches without end-of-file markers.                       *)
(***************************************************************************)
\* A line of the patch text starts with the end-of-file marker.
TextHasEofMarker ==
    \E i \in 1..Len(split(text)) :
       startsWith(split(text)[i], "*** End of File")

\* C27: for a patch without `*** End of File` marker that textToPatch
\* parses, patchToCommit never raises the overlapping-chunks error or the
\* exceeds-file-length error.
C27_NoCommitErrorWithoutEof ==
    (pc = "error" /\ err \in {"overlapping chunks", "exceeds file length"})
       => TextHasEofMarker

\* An Update of two hunks with a chunk each, without end-of-file marker,
\* has been committed.
C27_Witness ==
    /\ pc = "done"
    /\ ~TextHasEofMarker
    /\ \E i \in 1..Len(UpdateBody) : startsWith(UpdateBody[i], "@@")
    /\ \E a \in Actions("update") : Len(a.chunks) = 2

(***************************************************************************)
(* Claims about the line at which the parser stops.                        *)
(***************************************************************************)
\* C28: when textToPatch succeeds, the `*** End Patch` line at which the
\* parser stopped is the final line of the patch text, so every line was
\* consumed; a text with an earlier `*** End Patch` line followed by more
\* actions is rejected.
C28_StopsAtFinalLine ==
    Parsed => parser.index = Len(parser.lines)

(***************************************************************************)
(* Claims about the lines an Update leaves alone.                          *)
(***************************************************************************)
RECURSIVE SumLen(_, _, _)
\* The total length of the lines named by field, over the chunks in set.
SumLen(chunks, set, field) ==
    IF set = {} THEN 0
    ELSE LET j == CHOOSE j \in set : TRUE
         IN  Len(chunks[j][field]) + SumLen(chunks, set \ {j}, field)

\* The original index k (from 0) lies in a chunk's deleted range.
Deleted(chunks, k) ==
    \E j \in 1..Len(chunks) :
       /\ chunks[j].origIndex <= k
       /\ k < chunks[j].origIndex + Len(chunks[j].delLines)

\* Where the original line k is in the output: moved up by the deletions
\* that end at or before it and down by the insertions at or before it.
OutputIndex(chunks, k) ==
    k - SumLen(chunks, {j \in 1..Len(chunks) :
                          chunks[j].origIndex + Len(chunks[j].delLines) <= k},
               "delLines")
      + SumLen(chunks, {j \in 1..Len(chunks) : chunks[j].origIndex <= k},
               "insLines")

\* C29: in the output of a successful Update every original line outside
\* the chunks' deleted ranges appears verbatim and in its original order,
\* with the file's text where a keep line matched under a whitespace tier,
\* and each chunk removes exactly len(delLines) lines at its origIndex.
C29_FrameKept ==
    pc = "done" =>
       \A a \in Actions("update") :
          LET lines == split(orig[a.path])
              out == split(result[OutputPath(a)])
              all == 1..Len(a.chunks)
          IN  /\ Len(out) = Len(lines) - SumLen(a.chunks, all, "delLines")
                                       + SumLen(a.chunks, all, "insLines")
              /\ \A k \in 0..(Len(lines) - 1) :
                    ~Deleted(a.chunks, k) =>
                       out[OutputIndex(a.chunks, k) + 1] = lines[k + 1]

\* A keep line matched the file's `a ` under the trailing-whitespace tier,
\* the line after it was replaced, and the output has the file's `a `.
C29_Witness ==
    /\ pc = "done"
    /\ orig["f"] = "b\na \nb"
    /\ result["f"] = "b\na \nc"
    /\ parser.fuzz = FuzzTrailing

(***************************************************************************)
(* Claims about the finalContent that partialEdit returns.                 *)
(***************************************************************************)
\* The content of origin.tmp after the patch: the content that the patch
\* gives it, or else the original content.
PatchedContent ==
    IF tempFileName \in DOMAIN result THEN result[tempFileName]
    ELSE orig[tempFileName]

\* C30: the finalContent returned by partialEdit is the content of
\* origin.tmp after the patch is applied to the original content; it is
\* the original content when the patch has no action on origin.tmp, and
\* the empty string only when the patched content is empty.
C30_FinalContent ==
    (edit.returned /\ tempFileName \notin DeletedPaths) =>
        edit.finalContent = PatchedContent

\* The same for patches with an action that writes origin.tmp.
C30_FinalContentWhenWritten ==
    (edit.returned /\ tempFileName \in DOMAIN result) =>
        edit.finalContent = PatchedContent

====
